---- MODULE Spec2Model ----
(***************************************************************************)
(* A model of examples/consoles.py: the Console widget (one session per    *)
(* node), its key / Return / Control-c / file-readable handlers, the       *)
(* synchronous drain waitOutput with its update() yield point, and the     *)
(* output filter ignoreChars.  Text is modelled as sequences of byte       *)
(* codes.  The Node object (mininet.node: sendCmd, write, sendInt,         *)
(* monitor, waiting) is not part of the file; it is modelled from its      *)
(* documented contract.                                                    *)
(*                                                                         *)
(* Scope.  The Tk text widget's own class bindings (inserting typed        *)
(* characters) are not modelled: the line under the cursor is an input of  *)
(* Return.  waitOutput and the buttons' methods are entered from the main  *)
(* loop only, not from inside a drain's update().                          *)
(* Spec runs the consoles over processes that stay alive, SpecEof adds the *)
(* death of a process, LiveSpec adds the fairness of the draining thread,  *)
(* FairSpec that of Tk's dispatcher, AppSpec adds the buttons of           *)
(* ConsoleApp (ping, iperf, stop, quit), FilterSpec runs the output filter *)
(* alone.                                                                  *)
(***************************************************************************)
EXTENDS Integers, Sequences, FiniteSets, TLC

\* ------------------------------------------------------------------ bounds

\* Chunks of output the nodes' processes may produce, all together, in one run.
MaxOut == 2
\* Longest byte sequence fed to the output filter in FilterSpec.
MaxLen == 3

\* ------------------------------------------------------------ nodes, text

\* The node names (node.name), as byte sequences: "a" and "b".
Nodes == { <<97>>, <<98>> }

\* The first console created (createConsoles keeps the order of the node list).
FirstNode == <<97>>

\* self.prompt = node.name + '# '
Prompt(n) == n \o <<35, 32>>

\* 'export TERM=dumb', the command the constructor sends.
ExportCmd == <<101, 120, 112, 111, 114, 116, 32, 84, 69, 82, 77, 61, 100, 117, 109, 98>>

\* "ls"
Ls == <<108, 115>>

\* The lines the text widget can hold under the insertion cursor when Return is
\* pressed: a bare command, the prompt followed by a command, text and the
\* prompt twice before the command, a near miss of the prompt, the prompt alone.
Lines(n) ==
    { Ls,
      Prompt(n) \o Ls,
      <<120>> \o Prompt(n) \o Prompt(n) \o Ls,
      <<122>> \o n \o <<35>> \o Ls,
      Prompt(n) }

\* Commands other callers (ConsoleApp.ping, ConsoleApp.iperf) pass to sendCmd.
Cmds == { Ls }

\* Characters of ordinary key presses (event.char).
Keys == { <<120>> }

\* event.char of the Return key.
ReturnChar == <<13>>

\* What the process can put on its output: a chunk of bytes, and whether the
\* chunk carries the shell's completion marker (the prompt reappearing).
Chunks ==
    { [data |-> <<7, 104>>, done |-> FALSE],
      [data |-> <<27, 10>>, done |-> TRUE] }

\* ----------------------------------------------------------- output filter

\* The class of ignoreChars: [\x00-\x07\x09\x0b\x0c\x0e-\x1f]
IgnoreCharsMissingTab(b) == b \in (0..7) \cup {11, 12} \cup (14..31)

ignoreChars(b) == b \in (0..7) \cup {9} \cup {11} \cup {12} \cup (14..31)

RECURSIVE SkipMatch(_)
\* The rest of s after the longest match of [...]+ at its start.
SkipMatch(s) ==
    IF s # <<>> /\ ignoreChars(Head(s)) THEN SkipMatch(Tail(s)) ELSE s

RECURSIVE Sub(_)
\* ignoreChars.sub( '', s ): every non-overlapping match replaced by ''.
Sub(s) ==
    IF s = <<>> THEN <<>>
    ELSE IF ignoreChars(Head(s)) THEN Sub(SkipMatch(s))
    ELSE <<Head(s)>> \o Sub(Tail(s))

append_raw(t, s) == t \o s

append_atStart(t, s) == Sub(s) \o t

\* Console.append: the widget's text after inserting the filtered text at 'end'.
append(t, s) == t \o Sub(s)

\* The widget's capacity in the model: every chunk the processes can produce
\* (one byte each once filtered), each followed by a prompt.
BufCap == MaxOut * (1 + Len(Prompt(FirstNode)))

\* ------------------------------------------------------------------- state

VARIABLES
    started,    \* the consoles have been constructed (ConsoleApp.__init__ has run)
    waiting,    \* node.waiting, per node
    text,       \* the contents of each console's text widget (the output buffer)
    pipe,       \* each node's output not yet read: a sequence of chunks
    produced,   \* how many chunks the processes have produced
    eof,        \* the node's process has died / its output handle is at end-of-stream
    stack,      \* the waitOutput call in progress, if any: its console and its position
    last,       \* the last handler that ran, the flag it found, what it wrote to the node
    app,        \* the ConsoleApp method in progress (ping, iperf, stop), and its position
    flt         \* FilterSpec: the filter's input, its result, and whether it has run

vars == <<started, waiting, text, pipe, produced, eof, stack, last, app, flt>>

\* What a handler writes to its node's input.
NoWrite == [kind |-> "none", body |-> <<>>]
Line(cmd) == [kind |-> "line", body |-> cmd]
Char(c) == [kind |-> "char", body |-> c]
Interrupt == [kind |-> "int", body |-> <<>>]

\* had: the widget held text when clear() was called.
Rec(op, n, wr) ==
    [op |-> op, n |-> n, pre |-> waiting[n], wr |-> wr,
     had |-> op = "clear" /\ text[n] # <<>>]

NoFilter == [in |-> <<>>, out |-> <<>>, applied |-> FALSE]

\* No method of ConsoleApp is running: the application is in mainloop().
InMainloop == [op |-> "mainloop", ph |-> "", i |-> 0, wait |-> FALSE]

Init ==
    /\ started = FALSE
    /\ waiting = [n \in Nodes |-> FALSE]
    /\ text = [n \in Nodes |-> <<>>]
    /\ pipe = [n \in Nodes |-> <<>>]
    /\ produced = 0
    /\ eof = [n \in Nodes |-> FALSE]
    /\ stack = <<>>
    /\ last = [op |-> "none", n |-> FirstNode, pre |-> FALSE, wr |-> NoWrite,
               had |-> FALSE]
    /\ app = InMainloop
    /\ flt = NoFilter

\* ---------------------------------------------------- the node's contract

\* node.sendCmd( cmd ): writes the line, the node is waiting.
nodeSendCmd(n, cmd) == [w |-> TRUE, wr |-> Line(cmd)]

\* node.write( char ): forwards the character.
nodeWrite(n, c) == [w |-> waiting[n], wr |-> Char(c)]

\* node.sendInt(): sends the interrupt, the node is no longer waiting.
nodeSendInt(n) == [w |-> FALSE, wr |-> Interrupt]

\* node.monitor( timeoutms ): one chunk of what is available, or nothing (the
\* poll timed out, or the stream is at its end, which eos tells); a chunk that
\* carries the completion marker ends the wait.
nodeMonitor(n) ==
    IF pipe[n] # <<>>
    THEN [data |-> Head(pipe[n]).data,
          w |-> waiting[n] /\ ~Head(pipe[n]).done,
          pipe |-> Tail(pipe[n]),
          eos |-> FALSE]
    ELSE [data |-> <<>>, w |-> waiting[n], pipe |-> <<>>, eos |-> eof[n]]

\* The node's stdout is readable: data is waiting, or the stream has ended.
Readable(n) == pipe[n] # <<>> \/ eof[n]

\* ------------------------------------------------------ Console's methods

handleKey_always(n, c) == nodeWrite(n, c)

\* Console.handleKey
handleKey(n, c) ==
    IF waiting[n] THEN nodeWrite(n, c) ELSE [w |-> waiting[n], wr |-> NoWrite]

sendCmd_unguarded(n, cmd) == nodeSendCmd(n, cmd)

\* Console.sendCmd
sendCmd(n, cmd) ==
    IF ~waiting[n] THEN nodeSendCmd(n, cmd) ELSE [w |-> waiting[n], wr |-> NoWrite]

\* s occurs in t at (0-based) offset i
OccursAt(s, t, i) ==
    /\ i + Len(s) <= Len(t)
    /\ \A k \in 1..Len(s) : t[i + k] = s[k]

RECURSIVE FindFrom(_, _, _)
\* str.find: the lowest offset at or after i where s occurs in t, else -1
FindFrom(s, t, i) ==
    IF i + Len(s) > Len(t) THEN -1
    ELSE IF OccursAt(s, t, i) THEN i
    ELSE FindFrom(s, t, i + 1)

find(t, s) == FindFrom(s, t, 0)

\* cmd[ k: ]
From(t, k) == IF k >= Len(t) THEN <<>> ELSE SubSeq(t, k + 1, Len(t))

stripPrompt_keepsPrompt(n, cmd) ==
    LET pos == find(cmd, Prompt(n)) IN
    IF pos >= 0 THEN From(cmd, pos) ELSE cmd

\* Console.handleReturn, lines 103-105: the command after the prompt
stripPrompt(n, cmd) ==
    LET pos == find(cmd, Prompt(n)) IN
    IF pos >= 0 THEN From(cmd, pos + Len(Prompt(n))) ELSE cmd

handleReturn_noPassthrough(n, line) == sendCmd(n, stripPrompt(n, line))

\* Console.handleReturn
handleReturn(n, line) ==
    IF waiting[n] THEN nodeWrite(n, ReturnChar)
    ELSE sendCmd(n, stripPrompt(n, line))

handleInt_noSend(n) == [w |-> waiting[n], wr |-> NoWrite]

\* Console.handleInt
handleInt(n) == nodeSendInt(n)

handleReadable_noPrompt(n) ==
    LET m == nodeMonitor(n) IN
    [w |-> m.w, text |-> append(text[n], m.data), pipe |-> m.pipe, eos |-> m.eos]

\* Console.handleReadable
handleReadable(n) ==
    LET m == nodeMonitor(n)
        t == append(text[n], m.data)
    IN  [w |-> m.w,
         text |-> IF ~m.w THEN append(t, Prompt(n)) ELSE t,
         pipe |-> m.pipe,
         eos |-> m.eos]

clear_firstChar(t) == IF t = <<>> THEN <<>> ELSE Tail(t)

\* Console.clear: self.text.delete( '1.0', 'end' )
clear(t) == <<>>

init_noCmd(n) == [w |-> waiting[n], wr |-> NoWrite]

\* Console.__init__: ends with self.sendCmd( 'export TERM=dumb' )
init(n) == sendCmd(n, ExportCmd)

\* ------------------------------------------------------------- the actions

\* Tk dispatches events from mainloop() and from update() inside a drain.
AtDispatch ==
    /\ started
    /\ IF stack = <<>> THEN app = InMainloop ELSE stack[Len(stack)].pc = "update"

\* ConsoleApp.__init__ / createConsoles: one Console per node.
Construct ==
    /\ ~started
    /\ started' = TRUE
    /\ waiting' = [n \in Nodes |-> init(n).w]
    /\ last' = Rec("init", FirstNode, init(FirstNode).wr)
    /\ UNCHANGED <<text, pipe, produced, eof, stack, flt, app>>

\* An effect on node n's flag, recorded.
Apply(op, n, e) ==
    /\ waiting' = [waiting EXCEPT ![n] = e.w]
    /\ last' = Rec(op, n, e.wr)
    /\ UNCHANGED <<started, text, pipe, produced, eof, stack, flt, app>>

\* <KeyPress> on console n
KeyPress(n, c) == AtDispatch /\ Apply("handleKey", n, handleKey(n, c))

\* <Return> on console n, with the line under the cursor
Return(n, line) == AtDispatch /\ Apply("handleReturn", n, handleReturn(n, line))

\* <Control-c> on console n, or a caller's handleInt()
ControlC(n) == AtDispatch /\ Apply("handleInt", n, handleInt(n))

\* A caller's sendCmd( cmd ) on console n
CallSendCmd(n, cmd) == AtDispatch /\ Apply("sendCmd", n, sendCmd(n, cmd))

CallClear_resets(n) ==
    /\ AtDispatch
    /\ text' = [text EXCEPT ![n] = clear(text[n])]
    /\ waiting' = [waiting EXCEPT ![n] = FALSE]
    /\ last' = Rec("clear", n, NoWrite)
    /\ UNCHANGED <<started, pipe, produced, eof, stack, flt, app>>

\* A caller's clear() on console n
CallClear(n) ==
    /\ AtDispatch
    /\ text' = [text EXCEPT ![n] = clear(text[n])]
    /\ last' = Rec("clear", n, NoWrite)
    /\ UNCHANGED <<started, waiting, pipe, produced, eof, stack, flt, app>>

\* One call of handleReadable on console n.
Read(op, n) ==
    LET r == handleReadable(n) IN
    /\ Len(r.text) <= BufCap
    /\ waiting' = [waiting EXCEPT ![n] = r.w]
    /\ text' = [text EXCEPT ![n] = r.text]
    /\ pipe' = [pipe EXCEPT ![n] = r.pipe]
    /\ last' = Rec(IF r.eos THEN "eos" ELSE op, n, NoWrite)
    /\ UNCHANGED <<started, produced, eof, flt, app>>

\* The file handler registered by bindEvents: node.stdout is readable.
FileEvent(n) ==
    /\ AtDispatch
    /\ Readable(n)
    /\ Read("handleReadable", n)
    /\ UNCHANGED stack

Top == stack[Len(stack)]
Pop == SubSeq(stack, 1, Len(stack) - 1)
SetPc(pc) == [stack EXCEPT ![Len(stack)].pc = pc]

\* A user of the class calls waitOutput() on console n, from the main loop.
CallWaitOutput(n) ==
    /\ AtDispatch
    /\ stack = <<>>
    /\ stack' = Append(stack, [n |-> n, pc |-> "loop"])
    /\ UNCHANGED <<started, waiting, text, pipe, produced, eof, last, flt, app>>

WaitReturn_needsOutput ==
    /\ stack # <<>> /\ Top.pc = "loop"
    /\ ~waiting[Top.n]
    /\ pipe[Top.n] # <<>>
    /\ stack' = Pop
    /\ UNCHANGED <<started, waiting, text, pipe, produced, eof, last, flt, app>>

\* waitOutput: the loop test fails and the call returns.
WaitReturn ==
    /\ stack # <<>> /\ Top.pc = "loop"
    /\ ~waiting[Top.n]
    /\ stack' = Pop
    /\ UNCHANGED <<started, waiting, text, pipe, produced, eof, last, flt, app>>

\* waitOutput: the loop test holds; handleReadable( timeoutms=1000 ), then update().
WaitPoll_noRead ==
    /\ stack # <<>> /\ Top.pc = "loop"
    /\ waiting[Top.n]
    /\ stack' = SetPc("update")
    /\ UNCHANGED <<started, waiting, text, pipe, produced, eof, last, flt, app>>

WaitPoll_noUpdate ==
    /\ stack # <<>> /\ Top.pc = "loop"
    /\ waiting[Top.n]
    /\ Read("poll", Top.n)
    /\ UNCHANGED stack

WaitPoll ==
    /\ stack # <<>> /\ Top.pc = "loop"
    /\ waiting[Top.n]
    /\ Read("poll", Top.n)
    /\ stack' = SetPc("update")

\* waitOutput: update() has dispatched the pending events and returns.
WaitUpdated ==
    /\ stack # <<>> /\ Top.pc = "update"
    /\ stack' = SetPc("loop")
    /\ UNCHANGED <<started, waiting, text, pipe, produced, eof, last, flt, app>>

\* The node's process produces a chunk of output.
ProcOutput(n, c) ==
    /\ ~eof[n]
    /\ produced < MaxOut
    /\ produced' = produced + 1
    /\ pipe' = [pipe EXCEPT ![n] = Append(@, c)]
    /\ UNCHANGED <<started, waiting, text, eof, stack, last, flt, app>>

\* The node's process dies: its output ends.
ProcDie(n) ==
    /\ ~eof[n]
    /\ eof' = [eof EXCEPT ![n] = TRUE]
    /\ UNCHANGED <<started, waiting, text, pipe, produced, stack, last, flt, app>>

\* ---------------------------------------------------- ConsoleApp's methods

\* self.consoles[ 'hosts' ].consoles, in display order (both nodes are hosts).
Hosts == << <<97>>, <<98>> >>

\* consoles[ i ] after i = ( i + 1 ) % count: the host after the i-th, round the list
NextHost(i) == Hosts[(i % Len(Hosts)) + 1]

\* node.IP(): an address that names the node, "10." and its name.
IP(n) == <<49, 48, 46>> \o n

\* 'ping ' + ip
PingCmd(n) == <<112, 105, 110, 103, 32>> \o IP(n)

\* 'iperf -sD'
IperfServerCmd == <<105, 112, 101, 114, 102, 32, 45, 115, 68>>

\* 'iperf -t 99999 -i 1 -c ' + ip
IperfClientCmd(n) ==
    <<105, 112, 101, 114, 102, 32, 45, 116, 32, 57, 57, 57, 57, 57, 32,
      45, 105, 32, 49, 32, 45, 99, 32>> \o IP(n)

\* Frame.quit(): mainloop() has been told to end.
Quit == [op |-> "quit", ph |-> "", i |-> 0, wait |-> FALSE]

\* node.cmd( cmd ): sends the command to the node, whatever its flag, and
\* waits in the node for its completion.
nodeCmd(n, cmd) == nodeSendCmd(n, cmd)

\* A button calls a method of ConsoleApp, from mainloop().
Enter(a) ==
    /\ stack = <<>>
    /\ app' = a
    /\ UNCHANGED <<started, waiting, text, pipe, produced, eof, stack, last, flt>>

\* One call on a host's console in a method's loop: its effect on the host's
\* flag, recorded, and the method's next position.
Step(op, n, e, a) ==
    /\ waiting' = [waiting EXCEPT ![n] = e.w]
    /\ last' = Rec(op, n, e.wr)
    /\ app' = a
    /\ UNCHANGED <<started, text, pipe, produced, eof, stack, flt>>

\* The position after the i-th host of a loop: the next host, or what follows.
Advance(after) ==
    IF app.i < Len(Hosts) THEN [app EXCEPT !.i = @ + 1] ELSE after

\* The Ping button
CallPing ==
    AtDispatch /\ Enter([op |-> "ping", ph |-> "send", i |-> 1, wait |-> FALSE])

\* ConsoleApp.ping, one round of its loop: console.sendCmd( 'ping ' + ip )
ping ==
    /\ app.op = "ping"
    /\ Step("sendCmd", Hosts[app.i],
            sendCmd(Hosts[app.i], PingCmd(NextHost(app.i))),
            Advance(InMainloop))

\* The Iperf button
CallIperf ==
    AtDispatch /\ Enter([op |-> "iperf", ph |-> "server", i |-> 1, wait |-> FALSE])

\* ConsoleApp.iperf, first loop: console.node.cmd( 'iperf -sD' ) sends the command
iperfServer ==
    /\ app.op = "iperf" /\ app.ph = "server"
    /\ Step("cmd", Hosts[app.i],
            nodeCmd(Hosts[app.i], IperfServerCmd),
            [app EXCEPT !.ph = "cmd"])

\* ... and node.cmd reads the node's output (it does not reach the console)
\* until the command has completed.
iperfServerWait ==
    LET n == Hosts[app.i]
        m == nodeMonitor(n)
    IN  /\ app.op = "iperf" /\ app.ph = "cmd"
        /\ pipe[n] # <<>>
        /\ waiting' = [waiting EXCEPT ![n] = m.w]
        /\ pipe' = [pipe EXCEPT ![n] = m.pipe]
        /\ app' = IF m.w THEN app
                  ELSE IF app.i < Len(Hosts)
                       THEN [app EXCEPT !.ph = "server", !.i = @ + 1]
                       ELSE [app EXCEPT !.ph = "client", !.i = 1]
        /\ UNCHANGED <<started, text, produced, eof, stack, last, flt>>

\* ConsoleApp.iperf, second loop: console.sendCmd( 'iperf -t 99999 -i 1 -c ' + ip )
iperfClient ==
    /\ app.op = "iperf" /\ app.ph = "client"
    /\ Step("sendCmd", Hosts[app.i],
            sendCmd(Hosts[app.i], IperfClientCmd(NextHost(app.i))),
            Advance(InMainloop))

\* The Interrupt button: stop(); Quit and closing the window: quit(), which
\* calls stop( wait=False ).
CallStop(wait) ==
    AtDispatch /\ Enter([op |-> "stop", ph |-> "int", i |-> 1, wait |-> wait])

stopInt_skipsLast ==
    /\ app.op = "stop" /\ app.ph = "int"
    /\ Step("handleInt", Hosts[app.i], handleInt(Hosts[app.i]),
            IF app.i + 1 < Len(Hosts) THEN [app EXCEPT !.i = @ + 1]
            ELSE [app EXCEPT !.ph = IF app.wait THEN "drain" ELSE "kill", !.i = 1])

\* ConsoleApp.stop, first loop: console.handleInt()
stopInt ==
    /\ app.op = "stop" /\ app.ph = "int"
    /\ Step("handleInt", Hosts[app.i], handleInt(Hosts[app.i]),
            Advance([app EXCEPT !.ph = IF app.wait THEN "drain" ELSE "kill",
                                !.i = 1]))

\* ConsoleApp.stop, second loop (if wait): console.waitOutput() is entered,
\* once the call on the host before has returned.
stopWaitOutput ==
    /\ app.op = "stop" /\ app.ph = "drain"
    /\ stack = <<>>
    /\ app.i <= Len(Hosts)
    /\ stack' = <<[n |-> Hosts[app.i], pc |-> "loop"]>>
    /\ app' = [app EXCEPT !.i = @ + 1]
    /\ UNCHANGED <<started, waiting, text, pipe, produced, eof, last, flt>>

\* ConsoleApp.stop ends: quietRun( 'killall -9 iperf' ), and the return to
\* mainloop(), or to quit() and its Frame.quit().
stopReturn ==
    /\ app.op = "stop"
    /\ stack = <<>>
    /\ app.ph = "kill" \/ (app.ph = "drain" /\ app.i > Len(Hosts))
    /\ app' = IF app.wait THEN InMainloop ELSE Quit
    /\ UNCHANGED <<started, waiting, text, pipe, produced, eof, stack, last, flt>>

Next ==
    \/ Construct
    \/ \E n \in Nodes : \E c \in Keys : KeyPress(n, c)
    \/ \E n \in Nodes : \E line \in Lines(n) : Return(n, line)
    \/ \E n \in Nodes : ControlC(n)
    \/ \E n \in Nodes : \E cmd \in Cmds : CallSendCmd(n, cmd)
    \/ \E n \in Nodes : CallClear(n)
    \/ \E n \in Nodes : FileEvent(n)
    \/ \E n \in Nodes : CallWaitOutput(n)
    \/ WaitReturn
    \/ WaitPoll
    \/ WaitUpdated
    \/ \E n \in Nodes : \E c \in Chunks : ProcOutput(n, c)

\* The consoles over processes that stay alive.
Spec == Init /\ [][Next]_vars

NextEof == Next \/ \E n \in Nodes : ProcDie(n)

\* The consoles over processes that may die.
SpecEof == Init /\ [][NextEof]_vars

NextApp ==
    \/ Next
    \/ CallPing
    \/ ping
    \/ CallIperf
    \/ iperfServer
    \/ iperfServerWait
    \/ iperfClient
    \/ \E wait \in BOOLEAN : CallStop(wait)
    \/ stopInt
    \/ stopWaitOutput
    \/ stopReturn

\* The consoles with the buttons of ConsoleApp.
AppSpec == Init /\ [][NextApp]_vars

\* The thread inside waitOutput keeps running: the loop test, the poll (which
\* returns after its timeout at the latest) and update() (which returns once
\* the pending events are dispatched) each complete.
LiveSpec ==
    Spec /\ WF_vars(WaitReturn) /\ WF_vars(WaitPoll) /\ WF_vars(WaitUpdated)

\* Tk's dispatcher on top of that: a file handler whose handle is readable again
\* and again, each time Tk looks for events (in mainloop, or in an update()),
\* is called.
FairSpec == LiveSpec /\ \A n \in Nodes : SF_vars(FileEvent(n))

\* ------------------------------------------------- the filter on its own

\* Bytes on both sides of every boundary of the ignored ranges.
Bytes == {0, 7, 8, 9, 10, 11, 12, 13, 14, 31, 32, 127}

Inputs == UNION { [1..k -> Bytes] : k \in 0..MaxLen }

FilterInit ==
    /\ started = FALSE
    /\ waiting = [n \in Nodes |-> FALSE]
    /\ text = [n \in Nodes |-> <<>>]
    /\ pipe = [n \in Nodes |-> <<>>]
    /\ produced = 0
    /\ eof = [n \in Nodes |-> FALSE]
    /\ stack = <<>>
    /\ last = [op |-> "none", n |-> FirstNode, pre |-> FALSE, wr |-> NoWrite,
               had |-> FALSE]
    /\ app = InMainloop
    /\ \E b \in Inputs : flt = [in |-> b, out |-> <<>>, applied |-> FALSE]

\* append( b ) on an empty widget: what the filter lets through
ApplyFilter ==
    /\ ~flt.applied
    /\ flt' = [in |-> flt.in, out |-> append(<<>>, flt.in), applied |-> TRUE]
    /\ UNCHANGED <<started, waiting, text, pipe, produced, eof, stack, last, app>>

FilterSpec == FilterInit /\ [][ApplyFilter]_vars

\* ------------------------------------------------------------- properties

\* The handleReadable call of a step, by the file handler or by a drain's poll.
ReadStep(n) == FileEvent(n) \/ (WaitPoll /\ Top.n = n)

\* t ends with s
EndsWith(t, s) ==
    /\ Len(s) <= Len(t)
    /\ SubSeq(t, Len(t) - Len(s) + 1, Len(t)) = s

\* C1: whatever the session's state before it, idle or waiting, the interrupt
\* (handleInt -> node.sendInt) leaves the waiting flag false; so does a second
\* interrupt, and one with no command outstanding.
C1_InterruptLeavesIdle ==
    [][\A n \in Nodes : ControlC(n) => ~waiting'[n]]_vars

\* An interrupt has just run on a session that was waiting.
C1_Witness ==
    /\ last.op = "handleInt" /\ last.pre
    /\ last.wr = Interrupt
    /\ ~waiting[last.n]

\* C2: sendCmd on a session that is waiting writes nothing to the node and
\* changes neither the waiting flag nor the output buffer (nor anything else).
C2_SendCmdWhileWaitingIsNoOp ==
    [][\A n \in Nodes : \A cmd \in Cmds :
          (CallSendCmd(n, cmd) /\ waiting[n]) =>
              /\ last'.wr = NoWrite
              /\ waiting' = waiting
              /\ text' = text
              /\ UNCHANGED <<pipe, produced, eof, stack>>]_vars

\* sendCmd has just been called on a waiting session.
C2_Witness ==
    /\ last.op = "sendCmd" /\ last.pre
    /\ last.wr = NoWrite
    /\ waiting[last.n]

\* C3: sendCmd on an idle session makes it waiting, and the handleReadable call
\* that delivers the chunk with the command's completion leaves the session
\* idle with the output buffer ending in the session's prompt.
C3_RoundTrip ==
    [][\A n \in Nodes :
          /\ \A cmd \in Cmds :
                (CallSendCmd(n, cmd) /\ ~waiting[n]) =>
                    (waiting'[n] /\ last'.wr = Line(cmd))
          /\ (ReadStep(n) /\ waiting[n] /\ pipe[n] # <<>> /\ Head(pipe[n]).done) =>
                (~waiting'[n] /\ EndsWith(text'[n], Prompt(n)))]_vars

\* A handleReadable call has just ended a wait, after output without the
\* completion had been shown.
C3_Witness ==
    /\ last.op \in {"handleReadable", "poll"} /\ last.pre
    /\ ~waiting[last.n]
    /\ Len(text[last.n]) > Len(Prompt(last.n))
    /\ EndsWith(text[last.n], Prompt(last.n))

\* C4: while the session is waiting, a key press forwards its character and
\* Return forwards its own character to the node with write; neither
\* dispatches a command, and the session stays waiting.
C4_Passthrough ==
    [][\A n \in Nodes :
          waiting[n] =>
              /\ \A c \in Keys :
                    KeyPress(n, c) => (last'.wr = Char(c) /\ waiting'[n])
              /\ \A line \in Lines(n) :
                    Return(n, line) => (last'.wr = Char(ReturnChar) /\ waiting'[n])]_vars

\* Return has just been pressed on a waiting session.
C4_Witness ==
    /\ last.op = "handleReturn" /\ last.pre
    /\ last.wr = Char(ReturnChar)
    /\ waiting[last.n]

\* p occurs in t at offset i (0-based)
IsAt(p, t, i) == i + Len(p) <= Len(t) /\ SubSeq(t, i + 1, i + Len(p)) = p

\* The command the claim expects of a line: what follows the first occurrence
\* of the prompt, or the line itself when the prompt does not occur in it.
Body(n, line) ==
    LET at == { i \in 0..Len(line) : IsAt(Prompt(n), line, i) } IN
    IF at = {} THEN line
    ELSE LET i == CHOOSE i \in at : \A j \in at : i <= j
             k == i + Len(Prompt(n))
         IN  [x \in 1..(Len(line) - k) |-> line[k + x]]

\* C5: Return on an idle session dispatches, as the command, the text after
\* the prompt when the prompt occurs in the line, and the whole line when it
\* does not.
C5_CommandRouting ==
    [][\A n \in Nodes : \A line \in Lines(n) :
          (Return(n, line) /\ ~waiting[n]) =>
              (last'.wr = Line(Body(n, line)) /\ waiting'[n])]_vars

\* Return has just dispatched the rest of a line that held text and the prompt
\* before the command.
C5_Witness ==
    /\ last.op = "handleReturn" /\ ~last.pre
    /\ last.wr = Line(Prompt(last.n) \o Ls)
    /\ waiting[last.n]

\* A waitOutput call on console n is in progress.
InDrain(n) == stack # <<>> /\ stack[1].n = n

\* The node is waiting and no completion is on its way.
Unreported(n) == waiting[n] /\ \A i \in 1..Len(pipe[n]) : ~pipe[n][i].done

\* C6: a waitOutput call returns unless its node is waiting for a completion
\* the process has not reported (so it returns once the process has reported
\* completion and stopped), and when it returns the waiting flag is false.
C6_WaitOutputTerminates ==
    /\ \A n \in Nodes : InDrain(n) ~> (~InDrain(n) \/ Unreported(n))
    /\ [][\A n \in Nodes : (WaitReturn /\ InDrain(n)) => ~waiting'[n]]_vars

\* A drain has polled a waiting session and has returned, the session idle.
C6_Witness ==
    /\ stack = <<>>
    /\ last.op = "poll" /\ last.pre
    /\ ~waiting[last.n]

\* C7: clear() empties the output buffer, whatever it held, and leaves the
\* waiting flags as they were.
C7_ClearEmptiesBuffer ==
    [][\A n \in Nodes :
          CallClear(n) => (text'[n] = <<>> /\ waiting' = waiting)]_vars

\* clear() has just run on a waiting session whose buffer held text.
C7_Witness ==
    /\ last.op = "clear" /\ last.had /\ last.pre
    /\ text[last.n] = <<>>
    /\ waiting[last.n]

\* The bytes the claim names: 0x00-0x07, 0x09, 0x0B-0x0C, 0x0E-0x1F.
Disallowed(b) ==
    \/ 0 <= b /\ b <= 7
    \/ b = 9
    \/ 11 <= b /\ b <= 12
    \/ 14 <= b /\ b <= 31

Allowed(b) == ~Disallowed(b)

\* C8: the filter's result is its input with exactly the disallowed bytes
\* removed: no disallowed byte is left, and every other byte (backspace, line
\* feed and carriage return among them) is kept, in order.
C8_FilterRemovesExactlyDisallowed ==
    flt.applied =>
        /\ flt.out = SelectSeq(flt.in, Allowed)
        /\ \A i \in 1..Len(flt.out) : ~Disallowed(flt.out[i])
        /\ SelectSeq(flt.out, LAMBDA b : b \in {8, 10, 13})
             = SelectSeq(flt.in, LAMBDA b : b \in {8, 10, 13})

\* The filter has run on an input mixing kept and removed bytes.
C8_Witness ==
    /\ flt.applied
    /\ flt.in = <<9, 8, 31>>
    /\ flt.out = <<8>>

\* C9 as stated: right after the consoles are constructed, no session is waiting.
C9_IdleAfterConstruction ==
    [][Construct => \A n \in Nodes : ~waiting'[n]]_vars

\* C9, amended: a node is idle before its console exists, and constructing the
\* console dispatches 'export TERM=dumb', so right after construction the
\* session is waiting.
C9_WaitingAfterConstruction ==
    [][/\ ~started => \A n \in Nodes : ~waiting[n]
       /\ Construct =>
            /\ \A n \in Nodes : waiting'[n]
            /\ last'.wr = Line(ExportCmd)]_vars

\* The consoles have just been constructed.
C9_Witness ==
    /\ started
    /\ last.op = "init" /\ ~last.pre
    /\ last.wr = Line(ExportCmd)
    /\ \A n \in Nodes : waiting[n]

\* C10: once a read of a session has signalled end-of-stream, the next handler
\* to run is not a read callback of that session, nor a command or a
\* character sent to its node.
C10_NoDispatchAfterEndOfStream ==
    [][\A n \in Nodes :
          (last.op = "eos" /\ last.n = n) =>
              /\ ~ReadStep(n)
              /\ ~(last'.n = n /\ last' # last /\ last'.wr.kind \in {"line", "char"})]_vars

DataRead(n) == IF pipe[n] # <<>> THEN Head(pipe[n]).data ELSE <<>>
Shown(n) == text[n] \o SelectSeq(DataRead(n), Allowed)

\* C12: a handleReadable call appends the prompt, after the data it read,
\* exactly when the session goes from waiting to idle in that call; a call on
\* a session that was already idle, or that stays waiting, appends no prompt.
C12_PromptExactlyOnCompletion ==
    [][\A n \in Nodes :
          ReadStep(n) =>
              text'[n] = IF waiting[n] /\ ~waiting'[n]
                         THEN Shown(n) \o Prompt(n)
                         ELSE Shown(n)]_vars

\* C13: a handleReadable call whose read returns no data leaves the session
\* as it was, idle or waiting: the waiting flag and the output buffer are
\* unchanged.
C13_EmptyReadChangesNothing ==
    [][\A n \in Nodes :
          (ReadStep(n) /\ pipe[n] = <<>>) =>
              (waiting'[n] = waiting[n] /\ text'[n] = text[n])]_vars

\* C14: an interrupt delivered at the update() point of a drain of the same
\* session leaves the session idle with the drain still in progress, and a
\* drain whose session is idle returns (unless a new command is dispatched to
\* the session first) without reading anything: no step of the process is
\* needed, so it returns even if the process is hung.
C14_InterruptEndsDrain ==
    /\ [][\A n \in Nodes :
             (ControlC(n) /\ InDrain(n)) =>
                 (~waiting'[n] /\ UNCHANGED <<stack, pipe, text>>)]_vars
    /\ \A n \in Nodes : (InDrain(n) /\ ~waiting[n]) ~> (~InDrain(n) \/ waiting[n])
    /\ [][WaitReturn => UNCHANGED <<waiting, pipe, text, produced>>]_vars

\* The interrupt has just been delivered inside update() of a drain of its own
\* session, which was waiting on a process that has produced nothing.
C14_Witness ==
    /\ stack # <<>> /\ Top.pc = "update"
    /\ InDrain(last.n)
    /\ last.op = "handleInt" /\ last.pre
    /\ ~waiting[last.n]
    /\ produced = 0

\* C15: the chunks a session's reads take from its node are appended to its
\* buffer in the order read and each exactly once: every handleReadable call,
\* from the file handler (also when dispatched inside a drain's update()) or
\* from a drain's poll, takes the oldest unread chunk and puts its shown form
\* at the end of the buffer, before the prompt if any; no other step takes a
\* chunk, and no other step changes the buffer except clear() and a read that
\* finds nothing, which can only add a prompt.
C15_ChunksAppendedInOrderOnce ==
    [][\A n \in Nodes :
          IF ReadStep(n) /\ pipe[n] # <<>>
          THEN /\ pipe'[n] = Tail(pipe[n])
               /\ text'[n] \in { Shown(n), Shown(n) \o Prompt(n) }
          ELSE /\ \/ pipe'[n] = pipe[n]
                  \/ \E c \in Chunks : pipe'[n] = Append(pipe[n], c)
               /\ \/ text'[n] = text[n]
                  \/ CallClear(n)
                  \/ ReadStep(n) /\ text'[n] = text[n] \o Prompt(n)]_vars

\* A drain's poll has just read the second of two chunks of a session, after
\* the first was read and shown: both are in the buffer, in the order read.
C15_Witness ==
    /\ last.op = "poll" /\ last.pre
    /\ produced = 2
    /\ pipe[last.n] = <<>>
    /\ text[last.n] = <<104, 10>> \o Prompt(last.n)

C18_DispatchOnlyWhenIdle ==
    last.wr.kind = "line" => ~last.pre

\* Every host is idle.
AllIdle == \A k \in 1..Len(Hosts) : ~waiting[Hosts[k]]

\* C19: stop sends the interrupt to each host, in display order, whatever
\* wait is; with wait true it enters the drains only after the last
\* interrupt (every host is idle by then), one host after the other in display
\* order, each once the drain before has returned, and no host is waiting
\* when it returns; with wait false it enters no drain.
C19_StopInterruptsThenDrains ==
    /\ [][stopInt =>
             /\ last'.n = Hosts[app.i] /\ last'.wr = Interrupt
             /\ ~waiting'[Hosts[app.i]]
             /\ stack = <<>> /\ stack' = <<>>]_vars
    /\ [][stopWaitOutput =>
             /\ app.wait
             /\ AllIdle
             /\ stack = <<>>
             /\ stack' # <<>> /\ stack'[1].n = Hosts[app.i]
             /\ app'.i = app.i + 1]_vars
    /\ [][(stopReturn /\ app.wait) => (app.i = Len(Hosts) + 1 /\ AllIdle')]_vars
    /\ [][(stopReturn /\ ~app.wait) => (app.ph = "kill" /\ app' = Quit)]_vars
    /\ []((app.op = "stop" /\ ~app.wait) => (stack = <<>> /\ app.ph # "drain"))

\* stop( wait=True ) has interrupted every host, the last of them waiting, and
\* has drained every host: it is about to return.
C19_Witness ==
    /\ app.op = "stop" /\ app.wait
    /\ app.ph = "drain" /\ app.i > Len(Hosts)
    /\ stack = <<>>
    /\ last.op = "handleInt" /\ last.pre
    /\ last.n = Hosts[Len(Hosts)]
    /\ AllIdle

====
